---- MODULE Spec2Model ----
(***************************************************************************)
(* Model of convertlogs_python2.py: conversion of a flat ZNC 1.4 log       *)
(* directory into the ZNC 1.6 directory hierarchy.                         *)
(*                                                                         *)
(* Strings are sequences of one-character strings, so that lower(), the    *)
(* regular expressions, the slicing of the date and the comparison of sort *)
(* keys are computed character by character as the script computes them.   *)
(* A path below OUTDIR is the sequence of its components (file names never *)
(* hold "/").                                                              *)
(***************************************************************************)
EXTENDS Integers, Sequences, FiniteSets, TLC

VARIABLES
    pc,         \* position of the script
    filenames,  \* os.listdir('.'), in the order the system lists it
    answer,     \* what the user types at the "What log module" prompt
    src,        \* the log files of the working directory: name -> [lines, stat]
    logfiles,   \* the names that end in "log"
    dupes,      \* the result of findMixedCaseDupes
    logType,    \* 'G', 'N' or 'U'
    mergeIdx,   \* position of the loop over dupes
    copyIdx,    \* position of the loop over logfiles
    logsCopied,
    files,      \* the files below OUTDIR: path -> [lines, stat]
    dirs,       \* the directories below OUTDIR (<< >> is OUTDIR itself)
    todo,       \* the entries of os.listdir(OUTDIR) the loop has yet to visit
    warnings,   \* how often each warning was printed
    \* history, read by the properties only
    src0, files0, written, moves, runNo, listing, snapFiles, snapDirs, runWarn,
    failedAt

vars == <<pc, filenames, answer, src, logfiles, dupes, logType, mergeIdx,
          copyIdx, logsCopied, files, dirs, todo, warnings,
          src0, files0, written, moves, runNo, listing, snapFiles, snapDirs,
          runWarn, failedAt>>

----------------------------------------------------------------------------
(* Characters *)

UpperLetters == <<"A","B","C","D","E","F","G","H","I","J","K","L","M",
                  "N","O","P","Q","R","S","T","U","V","W","X","Y","Z">>
LowerLetters == <<"a","b","c","d","e","f","g","h","i","j","k","l","m",
                  "n","o","p","q","r","s","t","u","v","w","x","y","z">>
DigitChars == <<"0","1","2","3","4","5","6","7","8","9">>

\* The characters of the model in code-point order (str comparison in sorted()).
Ascii == <<"\n", " ", "#", "-", ".">> \o DigitChars \o <<":">> \o UpperLetters
         \o <<"[", "]", "_">> \o LowerLetters

Range(s) == {s[i] : i \in 1..Len(s)}

Ord(c) == CHOOSE i \in 1..Len(Ascii) : Ascii[i] = c

Digits == Range(DigitChars)

WordOrDash == Range(UpperLetters) \cup Range(LowerLetters) \cup Range(DigitChars)
              \cup {"_", "-"}

IsDigit(c) == c \in Digits

\* [\w-] without re.LOCALE / re.UNICODE
IsWordOrDash(c) == c \in WordOrDash

\* . (any character but the newline)
IsDot(c) == c # "\n"

LowerChar(c) == IF \E i \in 1..26 : UpperLetters[i] = c
                THEN LowerLetters[CHOOSE i \in 1..26 : UpperLetters[i] = c]
                ELSE c

\* str.lower()
lower(s) == [i \in 1..Len(s) |-> LowerChar(s[i])]

\* s[a:b] of Python for 0 <= a <= b (clipped to the length of s)
Slice(s, a, b) ==
    LET hi == IF b < Len(s) THEN b ELSE Len(s)
    IN  IF a >= hi THEN << >> ELSE SubSeq(s, a + 1, hi)

\* str.replace(c, '')
RECURSIVE RemoveChar(_, _)
RemoveChar(s, c) ==
    IF s = << >> THEN << >>
    ELSE IF Head(s) = c THEN RemoveChar(Tail(s), c)
         ELSE <<Head(s)>> \o RemoveChar(Tail(s), c)

\* str < str
RECURSIVE StrLess(_, _)
StrLess(a, b) ==
    IF b = << >> THEN FALSE
    ELSE IF a = << >> THEN TRUE
    ELSE IF Head(a) = Head(b) THEN StrLess(Tail(a), Tail(b))
    ELSE Ord(Head(a)) < Ord(Head(b))

Perms(S) == {p \in [1..Cardinality(S) -> S] : \A x \in S : \E i \in DOMAIN p : p[i] = x}

\* One more print of the warning w, and of each warning of the list ws
Warn(printed, w) ==
    IF w \in DOMAIN printed THEN [printed EXCEPT ![w] = @ + 1]
    ELSE [x \in DOMAIN printed \cup {w} |-> IF x = w THEN 1 ELSE printed[x]]

RECURSIVE WarnAll(_, _)
WarnAll(printed, ws) ==
    IF ws = << >> THEN printed ELSE WarnAll(Warn(printed, Head(ws)), Tail(ws))

Put(f, k, v) == [x \in DOMAIN f \cup {k} |-> IF x = k THEN v ELSE f[x]]

Drop(f, k) == [x \in DOMAIN f \ {k} |-> f[x]]

----------------------------------------------------------------------------
(* sortLines *)

\* ".*$" matches from index i of line on: "$" holds at the end of the
\* string and before a newline that ends it.
RestMatches(line, i) ==
    \/ \A j \in i..Len(line) : IsDot(line[j])
    \/ /\ Len(line) >= i
       /\ line[Len(line)] = "\n"
       /\ \A j \in i..(Len(line) - 1) : IsDot(line[j])

lineReMatchUnanchored(line) ==
    LET cands == {i \in 1..Len(line) : line[i] = "]"}
    IN  IF cands # {} THEN CHOOSE i \in cands : \A j \in cands : i <= j ELSE 0

\* The index of the "]" that closes group 1 of lineRe, or 0 without a match.
\* "(.*?)" is lazy: the first "]" after which the rest of the pattern matches.
lineReMatch(line) ==
    LET Ok(i) == /\ line[i] = "]"
                 /\ \A j \in 2..(i - 1) : IsDot(line[j])
                 /\ RestMatches(line, i + 1)
        cands == {i \in 2..Len(line) : Ok(i)}
    IN  IF Len(line) >= 1 /\ line[1] = "[" /\ cands # {}
        THEN CHOOSE i \in cands : \A j \in cands : i <= j
        ELSE 0

\* ts = m.group(1).replace(':','')
LineKey(line) == RemoveChar(SubSeq(line, 2, lineReMatch(line) - 1), ":")

\* The list out before it is sorted: the (ts, line) tuples of the matching lines.
RECURSIVE Keyed(_)
Keyed(lines) ==
    IF lines = << >> THEN << >>
    ELSE IF lineReMatch(Head(lines)) = 0 THEN Keyed(Tail(lines))
         ELSE <<[ts |-> LineKey(Head(lines)), line |-> Head(lines)]>>
              \o Keyed(Tail(lines))

\* The warnings printed by the loop of sortLines, in order.
RECURSIVE LineWarnings(_)
LineWarnings(lines) ==
    IF lines = << >> THEN << >>
    ELSE IF lineReMatch(Head(lines)) = 0
         THEN <<[kind |-> "badline", arg |-> Head(lines)]>> \o LineWarnings(Tail(lines))
         ELSE LineWarnings(Tail(lines))

RECURSIVE InsertUnstable(_, _)
InsertUnstable(sorted, x) ==
    IF sorted = << >> THEN <<x>>
    ELSE IF ~StrLess(Head(sorted).ts, x.ts) THEN <<x>> \o sorted
         ELSE <<Head(sorted)>> \o InsertUnstable(Tail(sorted), x)

\* Insert x behind every element whose key is not greater than its own.
RECURSIVE InsertStable(_, _)
InsertStable(sorted, x) ==
    IF sorted = << >> THEN <<x>>
    ELSE IF StrLess(x.ts, Head(sorted).ts) THEN <<x>> \o sorted
         ELSE <<Head(sorted)>> \o InsertStable(Tail(sorted), x)

\* sorted(out, key=lambda x: x[0]): the one stable ascending order of out.
RECURSIVE SortedByKey(_)
SortedByKey(out) ==
    IF out = << >> THEN << >>
    ELSE InsertStable(SortedByKey(SubSeq(out, 1, Len(out) - 1)), out[Len(out)])

sortLines(lines) ==
    LET out == SortedByKey(Keyed(lines))
    IN  [i \in 1..Len(out) |-> out[i].line]

----------------------------------------------------------------------------
(* findMixedCaseDupes *)

\* counts[k] of Counter(nameslc)
Count(names, k) == Cardinality({i \in 1..Len(names) : lower(names[i]) = k})

LowerForms(names) == {lower(names[i]) : i \in 1..Len(names)}

IsDupeCountGe(v) == v >= 2

IsDupeCount(v) == v = 2

\* tmp of the second loop: the names that lowercase to dupename, as listed
RECURSIVE CopiesOf(_, _)
CopiesOf(names, dupename) ==
    IF names = << >> THEN << >>
    ELSE IF lower(Head(names)) = dupename
         THEN <<Head(names)>> \o CopiesOf(Tail(names), dupename)
         ELSE CopiesOf(Tail(names), dupename)

\* Iterating counts.items() in the order "order" of its keys
RECURSIVE DupeNames(_, _)
DupeNames(names, order) ==
    IF order = << >> THEN << >>
    ELSE IF IsDupeCount(Count(names, Head(order)))
         THEN <<Head(order)>> \o DupeNames(names, Tail(order))
         ELSE DupeNames(names, Tail(order))

RECURSIVE DupeWarnings(_, _)
DupeWarnings(names, order) ==
    IF order = << >> THEN << >>
    ELSE IF Count(names, Head(order)) > 2
         THEN <<[kind |-> "toomany", arg |-> Head(order)]>> \o DupeWarnings(names, Tail(order))
         ELSE DupeWarnings(names, Tail(order))

findMixedCaseDupes(names, order) ==
    LET dupenames == DupeNames(names, order)
    IN  [i \in 1..Len(dupenames) |-> CopiesOf(names, dupenames[i])]

----------------------------------------------------------------------------
(* The filename grammars: globalRe, userRe, networkRe *)

DotLog == <<".", "l", "o", "g">>

NoMatch == [ok |-> FALSE, g |-> << >>]

\* "$": at the end of the string or before a newline that ends it
AtEnd(s, e) == e = Len(s) \/ (e + 1 = Len(s) /\ s[Len(s)] = "\n")

\* The last index of the digits "[0-9]+" matches from index d on, or 0.
\* The quantifier is greedy and what follows is "\.", so only the whole run
\* of digits can lead to a match.
DigitsEnd(s, d) ==
    LET run == {e \in d..Len(s) : \A x \in d..e : IsDigit(s[x])}
    IN  IF run = {} THEN 0 ELSE CHOOSE e \in run : \A f \in run : f <= e

\* "_(?P<date>[0-9]+)\.log" matches from index k + 1 on ("$" too if anchored);
\* the value is the last index of the date, or 0.
DateEndAfter(s, k, anchored) ==
    IF k + 1 <= Len(s) /\ s[k + 1] = "_"
    THEN LET e == DigitsEnd(s, k + 2)
         IN  IF /\ e # 0
                /\ e + 4 <= Len(s)
                /\ SubSeq(s, e + 1, e + 4) = DotLog
                /\ (anchored => AtEnd(s, e + 4))
             THEN e ELSE 0
    ELSE 0

\* The positions of "_" in s: each "_" of the patterns matches at one
Underscores(s) == {p \in 1..Len(s) : s[p] = "_"}

AllDot(s, a, b) == \A x \in a..b : IsDot(s[x])

AllWordOrDash(s, a, b) == \A x \in a..b : IsWordOrDash(s[x])

\* The ends k of "(?P<window>.+)" started at index w for which the rest of
\* the pattern matches; ".+" is greedy, so the match takes the largest.
WindowEnds(s, w, anchored) ==
    {p - 1 : p \in {q \in Underscores(s) : /\ q - 1 >= w
                                           /\ AllDot(s, w, q - 1)
                                           /\ DateEndAfter(s, q - 1, anchored) # 0}}

MaxOf(S) == CHOOSE k \in S : \A j \in S : j <= k

MinOf(S) == CHOOSE k \in S : \A j \in S : k <= j

\* The ends j of "(?P<network>[\w-]+?)_" started at index n for which the
\* rest of the pattern matches; "+?" is lazy, so the match takes the smallest.
NetworkEnds(s, n, anchored) ==
    {p - 1 : p \in {q \in Underscores(s) : /\ q - 1 >= n
                                           /\ AllWordOrDash(s, n, q - 1)
                                           /\ WindowEnds(s, q + 1, anchored) # {}}}

\* The ends i of "^(?P<user>.+?)_" for which the rest of globalRe matches;
\* "+?" is lazy, so the match takes the smallest.
UserEnds(s) ==
    {p - 1 : p \in {q \in Underscores(s) : /\ q - 1 >= 1
                                           /\ AllDot(s, 1, q - 1)
                                           /\ NetworkEnds(s, q + 1, TRUE) # {}}}

\* globalRe.match(s)
globalReMatch(s) ==
    IF UserEnds(s) = {} THEN NoMatch
    ELSE LET i == MinOf(UserEnds(s))
             j == MinOf(NetworkEnds(s, i + 2, TRUE))
             k == MaxOf(WindowEnds(s, j + 2, TRUE))
             e == DateEndAfter(s, k, TRUE)
         IN  [ok |-> TRUE,
              g  |-> [user    |-> SubSeq(s, 1, i),
                      network |-> SubSeq(s, i + 2, j),
                      window  |-> SubSeq(s, j + 2, k),
                      date    |-> SubSeq(s, k + 2, e)]]

\* userRe.match(s): no "$" at the end of the pattern
userReMatch(s) ==
    IF NetworkEnds(s, 1, FALSE) = {} THEN NoMatch
    ELSE LET j == MinOf(NetworkEnds(s, 1, FALSE))
             k == MaxOf(WindowEnds(s, j + 2, FALSE))
             e == DateEndAfter(s, k, FALSE)
         IN  [ok |-> TRUE,
              g  |-> [network |-> SubSeq(s, 1, j),
                      window  |-> SubSeq(s, j + 2, k),
                      date    |-> SubSeq(s, k + 2, e)]]

\* networkRe.match(s): no "$" at the end of the pattern
networkReMatch(s) ==
    IF WindowEnds(s, 1, FALSE) = {} THEN NoMatch
    ELSE LET k == MaxOf(WindowEnds(s, 1, FALSE))
             e == DateEndAfter(s, k, FALSE)
         IN  [ok |-> TRUE,
              g  |-> [window |-> SubSeq(s, 1, k),
                      date   |-> SubSeq(s, k + 2, e)]]

\* myRe of convertToHierarchy
myReMatch(type, s) ==
    IF type = "N" THEN networkReMatch(s)
    ELSE IF type = "U" THEN userReMatch(s)
    ELSE globalReMatch(s)

\* m.group(name) raises IndexError for a group the pattern does not have
HasGroup(m, name) == name \in DOMAIN m.g

\* user = '' ... try: user = m.group("user") except IndexError: pass
GroupOrEmpty(m, name) == IF HasGroup(m, name) THEN m.g[name] ELSE << >>

\* ymd = (date[:4],date[4:6],date[6:8]); date = '-'.join(ymd)
FormatDateNoDash(date) == Slice(date, 0, 4) \o Slice(date, 4, 6) \o Slice(date, 6, 8)

FormatDate(date) ==
    Slice(date, 0, 4) \o <<"-">> \o Slice(date, 4, 6) \o <<"-">> \o Slice(date, 6, 8)

\* myFormat.format(user=user, network=network, window=window), as the
\* sequence of the components the "/" of the template separate
DirFormat(type, user, network, window) ==
    IF type = "N" THEN <<window>>
    ELSE IF type = "U" THEN <<network, window>>
    ELSE <<user, network, window>>

----------------------------------------------------------------------------
(* The file system below OUTDIR *)

Prefixes(path) == {SubSeq(path, 1, i) : i \in 1..Len(path)}

HasPrefix(p, q) == Len(p) >= Len(q) /\ SubSeq(p, 1, Len(q)) = q

Rebase(p, from, to) == to \o SubSeq(p, Len(from) + 1, Len(p))

Exists(p, fs, ds) == p \in DOMAIN fs \/ p \in ds

\* os.listdir(OUTDIR)
TopLevel(fs, ds) == {p[1] : p \in {q \in DOMAIN fs \cup ds : Len(q) = 1}}

\* errno of os.makedirs(OUTDIR + path), "" without an error: mkdir of
\* an existing name is EEXIST, mkdir below a file is ENOTDIR.
MakedirsErrno(path, fs, ds) ==
    IF Exists(path, fs, ds) THEN "EEXIST"
    ELSE IF \E q \in Prefixes(path) : q \in DOMAIN fs THEN "ENOTDIR"
    ELSE ""

ReraisesAlways(path, fs, ds) == MakedirsErrno(path, fs, ds) # ""

\* except OSError as exc: if exc.errno == errno.EEXIST and
\* os.path.isdir(path): pass / else: raise
Reraises(path, fs, ds) ==
    LET e == MakedirsErrno(path, fs, ds)
    IN  e # "" /\ ~(e = "EEXIST" /\ path \in ds)

\* os.rename of the entry at from to the free or file path to
Renamed(from, to, fs, ds) ==
    IF from \in DOMAIN fs
    THEN [ok |-> TRUE, files |-> Put(Drop(fs, from), to, fs[from]), dirs |-> ds, dst |-> to]
    ELSE LET mv(p) == IF HasPrefix(p, from) THEN Rebase(p, from, to) ELSE p
             nf == {mv(p) : p \in DOMAIN fs}
             old(q) == CHOOSE p \in DOMAIN fs : mv(p) = q
         IN  [ok |-> TRUE,
              files |-> [q \in nf |-> fs[old(q)]],
              dirs |-> {mv(p) : p \in ds},
              dst |-> to]

\* shutil.move(OUTDIR + from, OUTDIR + dst)
Move(from, dst, fs, ds) ==
    LET failed == [ok |-> FALSE, files |-> fs, dirs |-> ds, dst |-> dst]
        real == dst \o <<from[Len(from)]>>
    IN  IF ~Exists(from, fs, ds) THEN failed
        ELSE IF dst \in ds
             THEN IF Exists(real, fs, ds) THEN failed
                  ELSE Renamed(from, real, fs, ds)
        ELSE IF from \in ds /\ dst \in DOMAIN fs THEN failed
        ELSE Renamed(from, dst, fs, ds)

\* What the properties record of a moved entry: the file, or DirEntry
DirEntry == [lines |-> << >>, stat |-> << >>]

EntryAt(p, fs) == IF p \in DOMAIN fs THEN fs[p] ELSE DirEntry

\* OUTDIR+name.lower()
StagedNameAsIs(name) == <<name>>

StagedName(name) == <<lower(name)>>

\* One pass of the loop body of convertToHierarchy for the entry logfile
HierOutcome(type, logfile, fs, ds) ==
    LET m == myReMatch(type, logfile)
        skip(k) == [kind |-> k, files |-> fs, dirs |-> ds, dst |-> << >>,
                    existed |-> FALSE]
    IN  IF ~m.ok THEN skip("nomatch")
        ELSE IF ~HasGroup(m, "window") THEN skip("nowindow")
        ELSE IF ~HasGroup(m, "date") THEN skip("nodate")
        ELSE LET user == GroupOrEmpty(m, "user")
                 network == GroupOrEmpty(m, "network")
                 window == m.g["window"]
                 date == FormatDate(m.g["date"])
                 path == DirFormat(type, user, network, window)
                 dst == path \o <<date \o DotLog>>
             IN  IF Reraises(path, fs, ds) THEN skip("raise")
                 ELSE LET ds2 == ds \cup Prefixes(path)
                          mv == Move(<<logfile>>, dst, fs, ds2)
                      IN  IF mv.ok
                          THEN [kind |-> "moved", files |-> mv.files,
                                dirs |-> mv.dirs, dst |-> mv.dst,
                                existed |-> path \in ds]
                          ELSE [kind |-> "moveraise", files |-> fs, dirs |-> ds2,
                                dst |-> << >>, existed |-> path \in ds]

----------------------------------------------------------------------------
(* The script *)

EndsWithLog(x) == Len(x) >= 3 /\ SubSeq(x, Len(x) - 2, Len(x)) = <<"l", "o", "g">>

\* logfiles = [x for x in filenames if x.endswith('log')]
LogFilesOf(names) == SelectSeq(names, EndsWithLog)

UpperChar(c) == IF \E i \in 1..26 : LowerLetters[i] = c
                THEN UpperLetters[CHOOSE i \in 1..26 : LowerLetters[i] = c]
                ELSE c

\* if logType: logType = logType[0].upper() / else: logType = 'G'
LogTypeOf(typed) == IF typed = << >> THEN "G" ELSE UpperChar(typed[1])

\* dupeslist = list(chain(*dupes))
DupesList(ds) == UNION {Range(ds[i]) : i \in 1..Len(ds)}

AfterMerge(ds, i, lf) ==
    IF i <= Len(ds) THEN "merge" ELSE IF lf = << >> THEN "copied" ELSE "copy"

histUnchanged == UNCHANGED <<src0, files0>>

\* Lines 199-228: list the directory, find the duplicates, ask for the log
\* module, make OUTDIR.
Scan ==
    /\ pc = "start"
    /\ LET lf == LogFilesOf(filenames)
       IN  \E order \in Perms(LowerForms(lf)) :
              /\ logfiles' = lf
              /\ dupes' = findMixedCaseDupes(lf, order)
              /\ warnings' = WarnAll(warnings, DupeWarnings(lf, order))
              /\ pc' = AfterMerge(dupes', 1, lf)
    /\ logType' = LogTypeOf(answer)
    /\ mergeIdx' = 1
    /\ copyIdx' = 1
    /\ UNCHANGED <<filenames, answer, src, logsCopied, files, dirs, todo,
                   written, moves, runNo, listing, snapFiles, snapDirs,
                   runWarn, failedAt>>
    /\ histUnchanged

\* mergeAndCopyLogs, one pass of "for dupe in dupes"
MergeDupe ==
    /\ pc = "merge"
    /\ mergeIdx <= Len(dupes)
    /\ LET dupe == dupes[mergeIdx]
           lines == src[dupe[1]].lines \o src[dupe[2]].lines
           sortedLines == sortLines(lines)
           out == StagedName(dupe[1])
       IN  /\ files' = Put(files, out, [lines |-> sortedLines,
                                         stat |-> src[dupe[2]].stat])
           /\ warnings' = WarnAll(warnings, LineWarnings(lines))
           /\ written' = written \cup {[to |-> out, from |-> dupe[1], op |-> "merge"],
                                       [to |-> out, from |-> dupe[2], op |-> "merge"]}
    /\ mergeIdx' = mergeIdx + 1
    /\ pc' = AfterMerge(dupes, mergeIdx', logfiles)
    /\ UNCHANGED <<filenames, answer, src, logfiles, dupes, logType, copyIdx,
                   logsCopied, dirs, todo, moves, runNo, listing, snapFiles,
                   snapDirs, runWarn, failedAt>>
    /\ histUnchanged

\* mergeAndCopyLogs, one pass of "for name in logfiles"
CopyLog ==
    /\ pc = "copy"
    /\ copyIdx <= Len(logfiles)
    /\ LET name == logfiles[copyIdx]
       IN  IF name \notin DupesList(dupes)
           THEN /\ files' = Put(files, StagedName(name), src[name])
                /\ logsCopied' = logsCopied + 1
                /\ written' = written \cup {[to |-> StagedName(name), from |-> name,
                                             op |-> "copy"]}
           ELSE UNCHANGED <<files, logsCopied, written>>
    /\ copyIdx' = copyIdx + 1
    /\ pc' = IF copyIdx' <= Len(logfiles) THEN "copy" ELSE "copied"
    /\ UNCHANGED <<filenames, answer, src, logfiles, dupes, logType, mergeIdx,
                   dirs, todo, warnings, moves, runNo, listing, snapFiles,
                   snapDirs, runWarn, failedAt>>
    /\ histUnchanged

MaxRuns == 2

\* convertToHierarchy up to its loop: logfiles = os.listdir(OUTDIR)
StartHierarchy ==
    /\ pc \in {"copied", "done"}
    /\ runNo < MaxRuns
    /\ runNo' = runNo + 1
    /\ todo' = TopLevel(files, dirs)
    /\ listing' = todo'
    /\ snapFiles' = files
    /\ snapDirs' = dirs
    /\ runWarn' = warnings
    /\ pc' = IF todo' = {} THEN "done" ELSE "hier"
    /\ UNCHANGED <<filenames, answer, src, logfiles, dupes, logType, mergeIdx,
                   copyIdx, logsCopied, files, dirs, warnings, written, moves,
                   failedAt>>
    /\ histUnchanged

\* convertToHierarchy, one pass of "for logfile in logfiles"; the order of
\* os.listdir is arbitrary, so the next entry is any entry not yet visited.
HierStep ==
    /\ pc = "hier"
    /\ \E logfile \in todo :
          \E o \in {HierOutcome(logType, logfile, files, dirs)} :
              /\ files' = o.files
              /\ dirs' = o.dirs
              /\ IF o.kind \in {"raise", "moveraise"}
                 THEN /\ pc' = "aborted"
                      /\ failedAt' = <<logfile, o.kind>>
                      /\ UNCHANGED <<todo, warnings, moves>>
                 ELSE /\ todo' = todo \ {logfile}
                      /\ pc' = IF todo' = {} THEN "done" ELSE "hier"
                      /\ warnings' = IF o.kind = "moved" THEN warnings
                                     ELSE Warn(warnings, [kind |-> o.kind, arg |-> logfile])
                      /\ moves' = IF o.kind = "moved"
                                  THEN moves \cup {[run |-> runNo, from |-> logfile,
                                                   to |-> o.dst,
                                                   what |-> EntryAt(<<logfile>>, files),
                                                   dirExisted |-> o.existed]}
                                  ELSE moves
                      /\ UNCHANGED failedAt
    /\ UNCHANGED <<filenames, answer, src, logfiles, dupes, logType, mergeIdx,
                   copyIdx, logsCopied, written, runNo, listing, snapFiles,
                   snapDirs, runWarn>>
    /\ histUnchanged

----------------------------------------------------------------------------
(* Inputs *)

Us == <<"_">>
NL == <<"\n">>
D8 == <<"2", "0", "1", "6", "0", "1", "1", "5">>
D7 == <<"2", "0", "1", "6", "0", "1", "1">>
D9 == <<"2", "0", "1", "6", "0", "1", "1", "5", "1">>
D7x == <<"2", "0", "1", "6", "0", "1", "1", "x">>

Name2(w, d) == w \o Us \o d \o DotLog
Name3(n, w, d) == n \o Us \o w \o Us \o d \o DotLog
Name4(u, n, w, d) == u \o Us \o n \o Us \o w \o Us \o d \o DotLog

\* Sequences over S of length at most n
SeqsUpTo(S, n) == UNION {[1..k -> S] : k \in 0..n}

NoRepeat(s) == \A i, j \in 1..Len(s) : i # j => s[i] # s[j]

\* Names of the working directory: three spellings of one name, two of
\* another, and a file that is not a log.
SrcPool == {Name2(<<"w", "x">>, <<"1">>), Name2(<<"W", "x">>, <<"1">>),
            Name2(<<"w", "X">>, <<"1">>), Name2(<<"v">>, <<"1">>),
            Name2(<<"V">>, <<"1">>), <<"v", "_", "1", ".", "t", "x", "t">>}

\* The content a file of the working directory has in the runs of the whole
\* script: one line that names the file, stamped earlier in the mixed-case
\* spelling than in the lowercase one.
SrcFile(name) ==
    [lines |-> <<(IF name = lower(name) THEN <<"[", "2", "]">> ELSE <<"[", "1", "]">>)
                 \o name \o NL>>,
     stat |-> name]

\* What OUTDIR may hold before the script runs (os.mkdir(OUTDIR) may fail)
OldName == <<"O", "l", "d", ".", "l", "o", "g">>
OldStaged == {{}, {OldName}}

StagedFile(name) == [lines |-> <<name>>, stat |-> name]

Answers == {<< >>, <<"n">>, <<"U", "s", "e", "r">>}

MaxFiles == 3

InitCommon ==
    /\ logfiles = << >>
    /\ dupes = << >>
    /\ mergeIdx = 1
    /\ copyIdx = 1
    /\ logsCopied = 0
    /\ dirs = {<< >>}
    /\ todo = {}
    /\ warnings = << >>
    /\ src0 = src
    /\ files0 = files
    /\ written = {}
    /\ moves = {}
    /\ runNo = 0
    /\ listing = {}
    /\ snapFiles = files
    /\ snapDirs = dirs
    /\ runWarn = warnings
    /\ failedAt = << >>

\* The whole script on a working directory of at most MaxFiles entries
Init ==
    /\ filenames \in {s \in SeqsUpTo(SrcPool, MaxFiles) : NoRepeat(s)}
    /\ answer \in Answers
    /\ src = [n \in Range(filenames) |-> SrcFile(n)]
    /\ \E old \in OldStaged : files = [p \in {<<n>> : n \in old} |-> StagedFile(p[1])]
    /\ pc = "start"
    /\ logType = "G"
    /\ InitCommon

Next == Scan \/ MergeDupe \/ CopyLog \/ StartHierarchy \/ HierStep

Spec == Init /\ [][Next]_vars

\* findMixedCaseDupes on every list of at most MaxNames names, repeats included
MaxNames == 4

InitDupes ==
    /\ filenames \in SeqsUpTo(SrcPool, MaxNames)
    /\ answer = << >>
    /\ src = [n \in Range(filenames) |-> SrcFile(n)]
    /\ files = << >>
    /\ pc = "start"
    /\ logType = "G"
    /\ InitCommon

NextDupes == Scan

SpecDupes == InitDupes /\ [][NextDupes]_vars

\* The merge of one pair of duplicates whose lines are any lists of at most
\* MaxLines lines
MaxLines == 2

LinePool == {<<"[", "1", ":", "0", "]", "a", "\n">>,
             <<"[", "1", "0", "]", "b", "\n">>,
             <<"[", "0", ":", "5", "]", "c">>,
             <<"x", "]", "\n">>,
             <<"[", "9", "\n">>}

PairA == <<"A", ".", "l", "o", "g">>
PairB == <<"a", ".", "l", "o", "g">>

InitMerge ==
    /\ filenames = <<PairA, PairB>>
    /\ answer = << >>
    /\ \E la, lb \in SeqsUpTo(LinePool, MaxLines) :
          src = [n \in {PairA, PairB} |->
                   [lines |-> IF n = PairA THEN la ELSE lb, stat |-> n]]
    /\ files = << >>
    /\ pc = "start"
    /\ logType = "G"
    /\ InitCommon

NextMerge == Scan \/ MergeDupe

SpecMerge == InitMerge /\ [][NextMerge]_vars

\* convertToHierarchy on an OUTDIR that holds at most MaxStaged files
MaxStaged == 3

HierPool == {Name4(<<"u">>, <<"n">>, <<"#">>, D8),
             Name4(<<"U">>, <<"N">>, <<"#">>, D8),
             Name4(<<"u">>, <<"n">>, <<"#">>, D7),
             Name4(<<"u">>, <<"n">>, <<"#">>, D9),
             Name4(<<"u">>, <<"n">>, <<"#">>, D7x),
             Name4(<<"u">>, <<"#">>, <<"w">>, D8),
             Name2(Name2(<<"w">>, D8), D8),
             <<"l", "o", "g">>,
             Name4(<<"l", "o", "g">>, <<"n">>, <<"w">>, D8),
             Name2(<<"l", "o", "g">>, D8),
             Name2(<<"w">>, D8),
             Name3(<<"n">>, <<"#">>, D8)}

InitHier ==
    /\ filenames = << >>
    /\ answer \in Answers
    /\ src = << >>
    /\ \E S \in SUBSET HierPool :
          /\ Cardinality(S) <= MaxStaged
          /\ files = [p \in {<<n>> : n \in S} |-> StagedFile(p[1])]
    /\ pc = "copied"
    /\ logType = LogTypeOf(answer)
    /\ InitCommon

NextHier == StartHierarchy \/ HierStep

SpecHier == InitHier /\ [][NextHier]_vars

----------------------------------------------------------------------------
(* Properties of findMixedCaseDupes *)

\* The positions of names that lowercase to k
Spellings(names, k) == {i \in 1..Len(names) : lower(names[i]) = k}

\* The groups of ds that hold a name that lowercases to k
GroupsOf(ds, k) == {g \in 1..Len(ds) : \E x \in Range(ds[g]) : lower(x) = k}

\* C1: findMixedCaseDupes returns a group for a lowercase form exactly when
\* two of the names lowercase to it, the group holds those two names as they
\* are spelled, and a form that occurs once or more than twice has no name
\* in any group.
C1_GroupsAreExactlyThePairs ==
    pc # "start" =>
        /\ \A k \in LowerForms(logfiles) :
              IF Cardinality(Spellings(logfiles, k)) = 2
              THEN /\ Cardinality(GroupsOf(dupes, k)) = 1
                   /\ \E i, j \in Spellings(logfiles, k) :
                         /\ i < j
                         /\ \E g \in 1..Len(dupes) : dupes[g] = <<logfiles[i], logfiles[j]>>
              ELSE GroupsOf(dupes, k) = {}
        /\ \A g \in 1..Len(dupes) : Len(dupes[g]) = 2

C1_Witness ==
    /\ pc # "start"
    /\ Len(dupes) = 1
    /\ dupes[1][1] # dupes[1][2]
    /\ \E k \in LowerForms(logfiles) : Cardinality(Spellings(logfiles, k)) = 1

----------------------------------------------------------------------------
(* Properties of the merge of a pair *)

\* The lines read from the pair merged last, f1's then f2's
LinesRead == src[dupes[1][1]].lines \o src[dupes[1][2]].lines

\* The lines written to the merged file
LinesWritten == files[<<lower(dupes[1][1])>>].lines

Merged == pc \notin {"start", "merge"} /\ Len(dupes) = 1

\* A line that starts with "[" and holds a "]" later
LooksLikeLogLine(line) ==
    /\ Len(line) >= 2
    /\ line[1] = "["
    /\ \E i \in 2..Len(line) : line[i] = "]"

\* The Sort Key: the text between the leading "[" and the first "]",
\* without its colons
SortKeyOf(line) ==
    LET close == CHOOSE i \in 2..Len(line) :
                    line[i] = "]" /\ \A j \in 2..(i - 1) : line[j] # "]"
    IN  SelectSeq(SubSeq(line, 2, close - 1), LAMBDA c : c # ":")

WithKey(lines, k) ==
    SelectSeq(lines, LAMBDA l : LooksLikeLogLine(l) /\ SortKeyOf(l) = k)

\* How often the warning w was printed
Printed(w) == IF w \in DOMAIN warnings THEN warnings[w] ELSE 0

Occurrences(lines, l) == Cardinality({i \in 1..Len(lines) : lines[i] = l})

\* C2: the lines of the merged file ascend by Sort Key, and lines of equal
\* Sort Key keep the order they had in f1's lines followed by f2's lines.
C2_MergedLinesSortedStably ==
    Merged =>
        /\ \A i, j \in 1..Len(LinesWritten) :
              i < j => ~StrLess(SortKeyOf(LinesWritten[j]), SortKeyOf(LinesWritten[i]))
        /\ \A i \in 1..Len(LinesRead) :
              LooksLikeLogLine(LinesRead[i]) =>
                 WithKey(LinesWritten, SortKeyOf(LinesRead[i]))
                    = WithKey(LinesRead, SortKeyOf(LinesRead[i]))

\* Two lines of equal key and different text, one of each file, and a line
\* of f2 that sorts before a line of f1
C2_Witness ==
    /\ Merged
    /\ LET l1 == src[dupes[1][1]].lines
           l2 == src[dupes[1][2]].lines
       IN  /\ \E i \in 1..Len(l1), j \in 1..Len(l2) :
                 /\ LooksLikeLogLine(l1[i]) /\ LooksLikeLogLine(l2[j])
                 /\ l1[i] # l2[j]
                 /\ SortKeyOf(l1[i]) = SortKeyOf(l2[j])
           /\ \E i \in 1..Len(l1), j \in 1..Len(l2) :
                 /\ LooksLikeLogLine(l1[i]) /\ LooksLikeLogLine(l2[j])
                 /\ StrLess(SortKeyOf(l2[j]), SortKeyOf(l1[i]))

\* C3: a line that does not start with "[" followed later by "]" is not in
\* the merged file and is warned about once per occurrence, with its text;
\* the merge goes on, and every other line is written as often as it was read.
C3_BadLinesDroppedAndWarned ==
    Merged =>
        /\ <<lower(dupes[1][1])>> \in DOMAIN files
        /\ \A i \in 1..Len(LinesRead) :
              LET l == LinesRead[i]
              IN  IF LooksLikeLogLine(l)
                  THEN Occurrences(LinesWritten, l) = Occurrences(LinesRead, l)
                  ELSE /\ Occurrences(LinesWritten, l) = 0
                       /\ Printed([kind |-> "badline", arg |-> l])
                             = Occurrences(LinesRead, l)
        /\ \A i \in 1..Len(LinesWritten) : Occurrences(LinesRead, LinesWritten[i]) > 0
        /\ \A w \in DOMAIN warnings :
              /\ w.kind = "badline"
              /\ Occurrences(LinesRead, w.arg) > 0

C3_Witness ==
    /\ Merged
    /\ \E i, j \in 1..Len(LinesRead) :
          /\ ~LooksLikeLogLine(LinesRead[i])
          /\ LooksLikeLogLine(LinesRead[j])
          /\ i < j
    /\ Len(LinesWritten) >= 1

----------------------------------------------------------------------------
(* Properties of mergeAndCopyLogs *)

IsLowercase(name) == \A i \in 1..Len(name) : name[i] \notin Range(UpperLetters)

C5_TriplesAreSkipped ==
    pc = "copied" =>
        \A k \in LowerForms(logfiles) :
            Cardinality(Spellings(logfiles, k)) >= 3 =>
                /\ Printed([kind |-> "toomany", arg |-> k]) = 1
                /\ GroupsOf(dupes, k) = {}
                /\ \A w \in written : lower(w.from) # k

----------------------------------------------------------------------------
(* Properties of convertToHierarchy *)

\* name.split('_')
RECURSIVE SplitAt(_, _)
SplitAt(name, acc) ==
    IF name = << >> THEN <<acc>>
    ELSE IF Head(name) = "_" THEN <<acc>> \o SplitAt(Tail(name), << >>)
         ELSE SplitAt(Tail(name), Append(acc, Head(name)))

EndsWithDotLog(name) ==
    Len(name) >= 4 /\ SubSeq(name, Len(name) - 3, Len(name)) = DotLog

\* The fields of a name that ends in ".log", the date last
FieldsOf(name) == SplitAt(SubSeq(name, 1, Len(name) - 4), << >>)

FieldCount(type) == IF type = "N" THEN 2 ELSE IF type = "U" THEN 3 ELSE 4

EightDigits(d) == Len(d) = 8 /\ \A i \in 1..8 : d[i] \in Digits

\* A name in the pattern of the mode, of underscore-free fields and an
\* 8-digit date
WellFormed(type, name) ==
    /\ EndsWithDotLog(name)
    /\ LET f == FieldsOf(name)
       IN  /\ Len(f) = FieldCount(type)
           /\ \A i \in 1..Len(f) : f[i] # << >>
           /\ EightDigits(f[Len(f)])

\* The network field of a name in the pattern of the mode, << >> in the
\* Network mode, whose pattern has none
NetworkField(type, name) ==
    IF type = "N" THEN << >>
    ELSE IF type = "U" THEN FieldsOf(name)[1]
    ELSE FieldsOf(name)[2]

\* The path the template of the mode gives a well-formed name
ExpectedPath(type, name) ==
    LET f == FieldsOf(name)
        d == f[Len(f)]
    IN  SubSeq(f, 1, Len(f) - 1)
        \o <<<<d[1], d[2], d[3], d[4], "-", d[5], d[6], "-", d[7], d[8]>> \o DotLog>>

\* The entries the loop of the current run has visited
Visited == listing \ todo

WasFile(name) == <<name>> \in DOMAIN snapFiles

\* The run moved the top-level file name to the path to, as it was
MovedTo(name, to) ==
    /\ <<name>> \notin DOMAIN files
    /\ \E m \in moves : /\ m.run = runNo
                        /\ m.from = name
                        /\ m.to = to
                        /\ m.what = snapFiles[<<name>>]

\* The current run printed a warning that names the entry
WarnedAbout(name) ==
    \E w \in DOMAIN warnings :
        /\ w.arg = name
        /\ (w \in DOMAIN runWarn => warnings[w] > runWarn[w])

Unmoved(name) ==
    /\ <<name>> \in DOMAIN files
    /\ files[<<name>>] = snapFiles[<<name>>]
    /\ \A m \in moves : m.run = runNo => m.from # name

DatePartOf(name) ==
    IF EndsWithDotLog(name) THEN FieldsOf(name)[Len(FieldsOf(name))] ELSE << >>

HasDatePart(name) == EndsWithDotLog(name) /\ Len(FieldsOf(name)) >= 2

\* C7: a file whose date part is not exactly 8 digits stays where it is at
\* the top of OUTDIR and is warned about.
C7_BadDateLeftUnmoved ==
    \A name \in Visited :
        (WasFile(name) /\ HasDatePart(name) /\ ~EightDigits(DatePartOf(name)))
            => (Unmoved(name) /\ WarnedAbout(name))

\* C8: a second run of convertToHierarchy in the same mode leaves the tree
\* of the first run as it is and warns about every entry at the top of
\* OUTDIR.
C8_SecondRunMovesNothing ==
    (runNo = 2 /\ pc = "done") =>
        /\ files = snapFiles
        /\ dirs = snapDirs
        /\ \A name \in listing : WarnedAbout(name)

\* The directory convertToHierarchy makes for an entry that matches
TargetDirOf(type, name) ==
    LET m == myReMatch(type, name)
    IN  DirFormat(type, GroupOrEmpty(m, "user"), GroupOrEmpty(m, "network"),
                  GroupOrEmpty(m, "window"))

\* C9: an entry whose directory exists already is moved into it; when the
\* directory cannot be made for another reason the run ends there: the entry
\* and every entry not yet visited stay at the top of OUTDIR, and what was
\* moved before stays moved.
C9_MakedirsFailureAbortsTheRun ==
    /\ \A m \in moves : m.run = runNo => (<<m.from>> \notin DOMAIN files
                                           /\ \E p \in DOMAIN files : HasPrefix(p, m.to))
    /\ \A m \in moves : m.dirExisted => HasPrefix(m.to, TargetDirOf(logType, m.from))
    /\ pc = "aborted" =>
          /\ failedAt[1] \in todo
          /\ failedAt[2] = "raise" =>
                /\ TargetDirOf(logType, failedAt[1]) \notin dirs
                /\ \E q \in Prefixes(TargetDirOf(logType, failedAt[1])) : q \in DOMAIN files
          /\ \A name \in todo :
                /\ \A m \in moves : m.run = runNo => m.from # name
                /\ WasFile(name) => (<<name>> \in DOMAIN files
                                     /\ files[<<name>>] = snapFiles[<<name>>])

C9_Witness ==
    /\ pc = "aborted"
    /\ failedAt[2] = "raise"
    /\ \E m \in moves : m.run = runNo
    /\ Cardinality(todo) >= 2

\* C10: no two files of one run are moved to the same path, and the run
\* leaves as many files below OUTDIR as it found.
C10_NoTwoMovesToOnePath ==
    /\ \A m1, m2 \in moves :
          (m1.run = runNo /\ m2.run = runNo /\ m1.from # m2.from) => m1.to # m2.to
    /\ pc = "done" => Cardinality(DOMAIN files) = Cardinality(DOMAIN snapFiles)

====
